---- MODULE Spec2Model ----
(***************************************************************************)
(* Model of the TargetBoard canvas component                               *)
(* (src/src/components/TargetBoard/TargetBoard.tsx) and of the constants   *)
(* it imports (src/src/constant.ts).                                       *)
(*                                                                         *)
(* JavaScript numbers are modelled as exact rationals <<num, den>> with    *)
(* den > 0 in lowest terms, so that the arithmetic of the handlers         *)
(* (division by the scale, multiplication by 1.1, the clamp) is computed   *)
(* as the code computes it, up to floating-point rounding.                 *)
(* A nullable value is the empty sequence (null) or a one-element sequence.*)
(***************************************************************************)
EXTENDS Integers, Sequences, FiniteSets, TLC

\* ------------------------------------------------------------------------
\* Exact rational arithmetic (the JavaScript number type, without rounding)
\* ------------------------------------------------------------------------
Abs(n) == IF n < 0 THEN -n ELSE n

RECURSIVE Gcd(_, _)
Gcd(a, b) == IF b = 0 THEN a ELSE Gcd(b, a % b)

Norm(n, d) ==
  LET s == IF d < 0 THEN -1 ELSE 1
      g == Gcd(Abs(n), Abs(d))
  IN  <<(s * n) \div g, (s * d) \div g>>

R(n) == <<n, 1>>
Frac(n, d) == Norm(n, d)
RAdd(a, b) ==
  LET g == Gcd(a[2], b[2])
  IN  Norm(a[1] * (b[2] \div g) + b[1] * (a[2] \div g), (a[2] \div g) * b[2])
RNeg(a) == <<-a[1], a[2]>>
RSub(a, b) == RAdd(a, RNeg(b))
RMul(a, b) ==
  LET g1 == Gcd(Abs(a[1]), b[2])
      g2 == Gcd(Abs(b[1]), a[2])
  IN  Norm((a[1] \div g1) * (b[1] \div g2), (a[2] \div g2) * (b[2] \div g1))
RDiv(a, b) == RMul(a, IF b[1] < 0 THEN <<-b[2], -b[1]>> ELSE <<b[2], b[1]>>)
RLe(a, b) ==
  LET g == Gcd(a[2], b[2])
  IN  a[1] * (b[2] \div g) <= b[1] * (a[2] \div g)
RLt(a, b) == ~RLe(b, a)
RAbs(a) == <<Abs(a[1]), a[2]>>
RMax(a, b) == IF RLe(a, b) THEN b ELSE a
RMin(a, b) == IF RLe(a, b) THEN a ELSE b

\* the least r with r * r >= n: Math.sqrt on perfect squares
RECURSIVE Root(_, _)
Root(n, r) == IF r * r >= n THEN r ELSE Root(n, r + 1)

\* X*X + Y*Y <= Z*Z for naturals below 2^27, computed on two digits of base
\* 2^24 so that no intermediate product leaves the integer range
Base == 2^12
Sq2(n) ==
  LET hi == n \div Base
      lo == n % Base
      mid == 2 * hi * lo
      low == (mid % Base) * Base + lo * lo
  IN  <<hi * hi + mid \div Base + low \div (Base * Base), low % (Base * Base)>>
Add2(a, b) ==
  <<a[1] + b[1] + (a[2] + b[2]) \div (Base * Base), (a[2] + b[2]) % (Base * Base)>>
Le2(a, b) == a[1] < b[1] \/ (a[1] = b[1] /\ a[2] <= b[2])
SumSqLe(X, Y, Z) == Le2(Add2(Sq2(X), Sq2(Y)), Sq2(Z))

None == <<>>
Some(v) == <<v>>


\* ------------------------------------------------------------------------
\* Bounds of the model and the inputs the events are drawn from
\* ------------------------------------------------------------------------
\* interactions start only while fewer than MaxDots dots are committed
MaxDots == 2
\* number of wheel events and two-touch move events in one behaviour
MaxZoom == 2
\* a behaviour uses the full dot budget with one zoom event less, or the
\* full zoom budget with one dot less, or one less of both together with
\* resizes of the window
Budgets == {[dots |-> MaxDots, zoom |-> MaxZoom - 1, resize |-> FALSE],
            [dots |-> MaxDots - 1, zoom |-> MaxZoom, resize |-> FALSE],
            [dots |-> MaxDots - 1, zoom |-> MaxZoom - 1, resize |-> TRUE]}

\* window.innerWidth / innerHeight: at mount, and the sizes a resize reports
InitialScreenSize == [width |-> 160, height |-> 120]
ScreenSizes == {InitialScreenSize, [width |-> 200, height |-> 100]}
\* canvas.getBoundingClientRect() left / top: the canvas does not sit at the
\* origin of the client area
Rects == {[left |-> 8, top |-> 4]}
\* clientX / clientY of mouse and wheel events
MousePts == {<<86, 68>>, <<80, 260>>}
\* event.touches of two-touch events: finger distances 10, 25, 100 and 0;
\* the first and the third share their midpoint (80, 60)
PinchConfigs == {<<<<77, 56>>, <<83, 64>>>>, <<<<77, 56>>, <<92, 76>>>>,
                 <<<<50, 20>>, <<110, 100>>>>, <<<<77, 56>>, <<77, 56>>>>}
\* clientX / clientY of a first touch-down and of single-touch moves
FirstTouchPts == {ts[1] : ts \in PinchConfigs}
TouchMovePts == {<<77, 56>>, <<92, 76>>}
\* Math.sqrt on the squared finger distances of these configurations
SqDist(p, q) == (q[1] - p[1]) * (q[1] - p[1]) + (q[2] - p[2]) * (q[2] - p[2])
SqrtTable == [n \in {SqDist(ts[1], ts[2]) : ts \in PinchConfigs} |-> Root(n, 0)]
Sqrt(n) == SqrtTable[n]
\* event.button of mouse events (0 = main button)
Buttons == {0, 2}
\* sign of event.deltaY of wheel events
DeltaYs == {-1, 1}

\* coordinates of the board points getRingAtPoint is called on directly: the
\* centre, ring borders, points just off a border and points off the target
RingProbeCoords == {R(0), R(18), Frac(37, 2), R(108), R(-144), R(162), R(180),
                    R(181)}
\* calculateEnclosingCircle is called directly on every list of at most
\* MaxProbeDots dots at these board points
MaxProbeDots == 3
CircleProbePts == {<<0, 0>>, <<6, 0>>, <<0, 9>>, <<-3, 3>>}
DotLists == UNION {[1..n -> CircleProbePts] : n \in 0..MaxProbeDots}

\* ------------------------------------------------------------------------
\* constant.ts
\* ------------------------------------------------------------------------
ringColors == <<"#fff", "#fff", "#000", "#000", "#2196f3", "#2196f3",
                "#d50000", "#d50000", "#ffd600", "#ffd600">>
initialRingRadius == 180
ringGap == 18

\* scale limits and wheel step of the handlers
MinScale == Frac(1, 10)
MaxScale == R(5)
scaleBy == Frac(11, 10)

\* ------------------------------------------------------------------------
\* Pure helpers of the component
\* ------------------------------------------------------------------------
getRings ==
  [i \in 1..Len(ringColors) |->
     [outerRadius |-> initialRingRadius - (i - 1) * ringGap,
      innerRadius |-> initialRingRadius - (i - 1) * ringGap - ringGap,
      color |-> ringColors[i],
      index |-> i - 1]]

\* mutant of screenToTarget: the division by the scale is left out
screenToTargetUnscaled(t, sx, sy) ==
  [x |-> RSub(sx, t.x), y |-> RSub(sy, t.y)]

screenToTarget(t, sx, sy) ==
  [x |-> RDiv(RSub(sx, t.x), t.scale),
   y |-> RDiv(RSub(sy, t.y), t.scale)]

targetToScreen(t, tx, ty) ==
  [x |-> RAdd(RMul(tx, t.scale), t.x),
   y |-> RAdd(RMul(ty, t.scale), t.y)]

\* mutant of InRing: the outer border does not belong to the ring
InRingOpenOuter(x, y, ring) ==
  /\ RLe(RAbs(x), R(ring.outerRadius))
  /\ RLe(RAbs(y), R(ring.outerRadius))
  /\ LET g == Gcd(x[2], y[2])
         L == (x[2] \div g) * y[2]
         X == Abs(x[1]) * (L \div x[2])
         Y == Abs(y[1]) * (L \div y[2])
     IN  /\ SumSqLe(X, Y, ring.outerRadius * L)
         /\ ~Le2(Sq2(ring.outerRadius * L), Add2(Sq2(X), Sq2(Y)))
         /\ ~SumSqLe(X, Y, ring.innerRadius * L)

\* distance <= ring.outerRadius && distance > ring.innerRadius, where
\* distance = Math.sqrt(x * x + y * y): compared on the squares (all three
\* quantities are non-negative) over the common denominator of x and y
InRing(x, y, ring) ==
  /\ RLe(RAbs(x), R(ring.outerRadius))
  /\ RLe(RAbs(y), R(ring.outerRadius))
  /\ LET g == Gcd(x[2], y[2])
         L == (x[2] \div g) * y[2]
         X == Abs(x[1]) * (L \div x[2])
         Y == Abs(y[1]) * (L \div y[2])
     IN  /\ SumSqLe(X, Y, ring.outerRadius * L)
         /\ ~SumSqLe(X, Y, ring.innerRadius * L)

getRingAtPoint(x, y) ==
  LET rings == getRings
      hits == {i \in 1..Len(rings) : InRing(x, y, rings[i])}
  IN  IF hits = {} THEN None
      ELSE Some((CHOOSE i \in hits : \A j \in hits : i <= j) - 1)

getDistance(x1, y1, x2, y2) ==
  Sqrt((x2 - x1) * (x2 - x1) + (y2 - y1) * (y2 - y1))

getCenter(x1, y1, x2, y2) ==
  [x |-> Frac(x1 + x2, 2), y |-> Frac(y1 + y2, 2)]

\* mutant of Truthy: only null counts as falsy
NotNull(v) == v # None

\* truthiness of a value of type number | null: null and 0 are falsy
Truthy(v) == v # None /\ v # Some(R(0))

\* mutant of ClampScale: the scale is not clamped
Unclamped(s) == s

\* Math.max(0.1, Math.min(5, s))
ClampScale(s) == RMax(MinScale, RMin(MaxScale, s))

\* mutant of pinchTransform: the distance ratio is taken the wrong way round
pinchTransformInverted(t, lastDistance, lastCenter, distance, center) ==
  LET scaleChange == IF distance = R(0) THEN R(0)
                     ELSE RDiv(lastDistance, distance)
      newScale == ClampScale(RMul(t.scale, scaleChange))
      deltaX == RSub(center.x, lastCenter.x)
      deltaY == RSub(center.y, lastCenter.y)
  IN  [x |-> RAdd(t.x, deltaX), y |-> RAdd(t.y, deltaY), scale |-> newScale]

\* the transform a two-touch move sets: scale from the ratio of the new finger
\* distance to the last recorded one, offsets moved by the midpoint delta
pinchTransform(t, lastDistance, lastCenter, distance, center) ==
  LET scaleChange == RDiv(distance, lastDistance)
      newScale == ClampScale(RMul(t.scale, scaleChange))
      deltaX == RSub(center.x, lastCenter.x)
      deltaY == RSub(center.y, lastCenter.y)
  IN  [x |-> RAdd(t.x, deltaX), y |-> RAdd(t.y, deltaY), scale |-> newScale]

\* reduce((sum, v) => sum + v, 0) over the first n elements of q
RECURSIVE RSum(_, _)
RSum(q, n) == IF n = 0 THEN R(0) ELSE RAdd(RSum(q, n - 1), q[n])

\* Math.max(...q) over the first n elements of q (n > 0)
RECURSIVE RMaxOf(_, _)
RMaxOf(q, n) == IF n = 1 THEN q[1] ELSE RMax(RMaxOf(q, n - 1), q[n])

\* temporaryDot ? [...dots, temporaryDot] : dots
AllDots(ds, temp) == IF temp # None THEN Append(ds, temp[1]) ELSE ds

\* mutant of calculateEnclosingCircle: the circle is centred on the first dot
calculateEnclosingCircleAtFirst(allDots) ==
  IF Len(allDots) = 0 THEN None
  ELSE LET n == Len(allDots)
           centerX == allDots[1].x
           centerY == allDots[1].y
           distSq == [i \in 1..n |->
                        RAdd(RMul(RSub(allDots[i].x, centerX),
                                  RSub(allDots[i].x, centerX)),
                             RMul(RSub(allDots[i].y, centerY),
                                  RSub(allDots[i].y, centerY)))]
       IN  Some([x |-> centerX, y |-> centerY, radiusSq |-> RMaxOf(distSq, n)])

\* The radius is the largest of the square roots Math.sqrt(dx ** 2 + dy ** 2);
\* it is represented by its square, radiusSq (the square root is increasing,
\* so the largest root is the root of the largest square).
calculateEnclosingCircle(allDots) ==
  IF Len(allDots) = 0 THEN None
  ELSE LET n == Len(allDots)
           centerX == RDiv(RSum([i \in 1..n |-> allDots[i].x], n), R(n))
           centerY == RDiv(RSum([i \in 1..n |-> allDots[i].y], n), R(n))
           distSq == [i \in 1..n |->
                        RAdd(RMul(RSub(allDots[i].x, centerX),
                                  RSub(allDots[i].x, centerX)),
                             RMul(RSub(allDots[i].y, centerY),
                                  RSub(allDots[i].y, centerY)))]
       IN  Some([x |-> centerX, y |-> centerY, radiusSq |-> RMaxOf(distSq, n)])

\* the transform a wheel event at client point p sets
wheelTransform(t, r, p, deltaY) ==
  LET oldScale == t.scale
      mousePointTo == screenToTarget(t, R(p[1] - r.left), R(p[2] - r.top))
      newScale == ClampScale(IF deltaY < 0 THEN RMul(oldScale, scaleBy)
                             ELSE RDiv(oldScale, scaleBy))
  IN  [scale |-> newScale,
       x |-> RSub(R(p[1]), RMul(mousePointTo.x, newScale)),
       y |-> RSub(R(p[2]), RMul(mousePointTo.y, newScale))]


\* ------------------------------------------------------------------------
\* State
\* ------------------------------------------------------------------------
VARIABLES
  screenSize,         \* useScreenSize(): useState<ScreenSize>
  rect,               \* canvasRef.current.getBoundingClientRect()
  transform,          \* useState<TransformProps>
  dots,               \* useState<Dot[]>
  temporaryDot,       \* useState<Dot | null>
  enclosingCircle,    \* useState<{x, y, radius} | null>
  highlightedRing,    \* useState<number | null>
  lastTouchDistance,  \* useState<number | null>
  lastTouchCenter,    \* useState<{x, y} | null>
  longPressTimer,     \* useState<number | null>: the stored timer handle
  draggedDotId,       \* useState<string | null>
  mouseDownInfo,      \* useState<{x, y, screenX, screenY, longPress} | null>
  touchStartInfo,     \* useState<{x, y, longPress} | null>
  wasPinch,           \* useState(false)
  pendingTimers,      \* window.setTimeout callbacks scheduled and not yet run
  uuidCount,          \* number of uuidv4() tokens handed out
  drawn,              \* what the draw() calls of the latest commit painted
  call,               \* the latest direct call of a pure helper
  buttonHeld,         \* the mouse button that is down, if any
  touches,            \* event.touches: client points of the active touches
  pointer,            \* client point of the mouse pointer
  nZoom,              \* number of wheel / two-touch move events so far
  budget,             \* the bounds of this behaviour (an element of Budgets)
  added,              \* history: dots appended by the current interaction
  lastOutcome         \* history: how the latest interaction was resolved

\* the component and its event source
board == <<screenSize, rect, transform, dots, temporaryDot, enclosingCircle,
           highlightedRing, lastTouchDistance, lastTouchCenter, longPressTimer,
           draggedDotId, mouseDownInfo, touchStartInfo, wasPinch,
           pendingTimers, uuidCount, drawn, buttonHeld, touches, pointer,
           nZoom, budget, added, lastOutcome>>

vars == <<board, call>>

\* what one draw() call paints, as far as the dots and the circle go
Painted(ds, temp, circle) ==
  [dots |-> ds, temporaryDot |-> temp, enclosingCircle |-> circle]

InitWith(budgets) ==
  /\ screenSize = InitialScreenSize
  /\ rect \in Rects
  /\ transform = [x |-> Frac(screenSize.width, 2),
                  y |-> Frac(screenSize.height, 2),
                  scale |-> R(1)]
  /\ dots = <<>>
  /\ temporaryDot = None
  /\ enclosingCircle = None
  /\ drawn = <<Painted(<<>>, None, None)>>
  /\ call = [fn |-> "none", args |-> <<>>, result |-> None]
  /\ highlightedRing = None
  /\ lastTouchDistance = None
  /\ lastTouchCenter = None
  /\ longPressTimer = None
  /\ draggedDotId = None
  /\ mouseDownInfo = None
  /\ touchStartInfo = None
  /\ wasPinch = FALSE
  /\ pendingTimers = {}
  /\ uuidCount = 0
  /\ buttonHeld = None
  /\ touches = <<>>
  /\ pointer \in MousePts
  /\ nZoom = 0
  /\ budget \in budgets
  /\ added = 0
  /\ lastOutcome = "none"

Init == InitWith(Budgets)

\* window.setTimeout returns a handle distinct from every live handle
NewTimerId ==
  LET live == {t.id : t \in pendingTimers}
              \cup {longPressTimer[i] : i \in 1..Len(longPressTimer)}
  IN  CHOOSE n \in 1..(Cardinality(live) + 1) : n \notin live

\* window.clearTimeout(handle)
clearTimeout(timers, handle) == {t \in timers : t.id # handle}

\* mutant of ClearLongPress: the handle is forgotten, the timeout not cleared
ForgetLongPress ==
  /\ pendingTimers' = pendingTimers
  /\ longPressTimer' = None

\* if (longPressTimer) { clearTimeout(longPressTimer); setLongPressTimer(null) }
ClearLongPress ==
  /\ pendingTimers' = IF longPressTimer # None
                      THEN clearTimeout(pendingTimers, longPressTimer[1])
                      ELSE pendingTimers
  /\ longPressTimer' = None

\* mutant of Committed: the dragging flag is left set
CommittedStillDragging(dot) == [dot EXCEPT !.isTemporary = FALSE]

\* { ...temporaryDot, isTemporary: false, isDragging: false }
Committed(dot) == [dot EXCEPT !.isTemporary = FALSE, !.isDragging = FALSE]

NewDot(id, pt, temp) ==
  [id |-> id, x |-> pt.x, y |-> pt.y, isTemporary |-> temp, isDragging |-> temp]

\* mutant of appendDot: the new dot is put in front of the list
prependDot(prev, dot) == <<dot>> \o prev

\* setDots((prev) => [...prev, dot])
appendDot(prev, dot) == Append(prev, dot)

\* ------------------------------------------------------------------------
\* Touch handlers
\* ------------------------------------------------------------------------
\* mutant of handleTouchStart: a second touch does not set the pinch flag
handleTouchStartNoPinchFlag(ts) ==
  /\ touches' = ts
  /\ IF Len(ts) = 1
     THEN LET x == ts[1][1] - rect.left
              y == ts[1][2] - rect.top
              id == NewTimerId
          IN  /\ touchStartInfo' = Some([x |-> x, y |-> y, longPress |-> FALSE])
              /\ wasPinch' = FALSE
              /\ pendingTimers' = pendingTimers \cup
                   {[id |-> id, kind |-> "touch", x |-> x, y |-> y,
                     transform |-> transform]}
              /\ longPressTimer' = Some(id)
              /\ UNCHANGED <<lastTouchDistance, lastTouchCenter>>
     ELSE LET x1 == ts[1][1] - rect.left
              y1 == ts[1][2] - rect.top
              x2 == ts[2][1] - rect.left
              y2 == ts[2][2] - rect.top
          IN  /\ ClearLongPress
              /\ lastTouchDistance' = Some(R(getDistance(x1, y1, x2, y2)))
              /\ lastTouchCenter' = Some(getCenter(x1, y1, x2, y2))
              /\ UNCHANGED <<touchStartInfo, wasPinch>>
  /\ UNCHANGED <<pointer, rect, transform, dots, temporaryDot, highlightedRing,
                 draggedDotId, mouseDownInfo, uuidCount, buttonHeld, nZoom>>

handleTouchStart(ts) ==
  /\ touches' = ts
  /\ IF Len(ts) = 1
     THEN LET x == ts[1][1] - rect.left
              y == ts[1][2] - rect.top
              id == NewTimerId
          IN  /\ touchStartInfo' = Some([x |-> x, y |-> y, longPress |-> FALSE])
              /\ wasPinch' = FALSE
              /\ pendingTimers' = pendingTimers \cup
                   {[id |-> id, kind |-> "touch", x |-> x, y |-> y,
                     transform |-> transform]}
              /\ longPressTimer' = Some(id)
              /\ UNCHANGED <<lastTouchDistance, lastTouchCenter>>
     ELSE LET x1 == ts[1][1] - rect.left
              y1 == ts[1][2] - rect.top
              x2 == ts[2][1] - rect.left
              y2 == ts[2][2] - rect.top
          IN  /\ ClearLongPress
              /\ lastTouchDistance' = Some(R(getDistance(x1, y1, x2, y2)))
              /\ lastTouchCenter' = Some(getCenter(x1, y1, x2, y2))
              /\ wasPinch' = TRUE
              /\ UNCHANGED touchStartInfo
  /\ UNCHANGED <<pointer, rect, transform, dots, temporaryDot, highlightedRing,
                 draggedDotId, mouseDownInfo, uuidCount, buttonHeld, nZoom>>

handleTouchMove(ts) ==
  /\ touches' = ts
  /\ nZoom' = IF Len(ts) = 2 THEN nZoom + 1 ELSE nZoom
  /\ IF Len(ts) = 1 /\ temporaryDot # None /\ draggedDotId # None
     THEN LET x == ts[1][1] - rect.left
              y == ts[1][2] - rect.top
              t == screenToTarget(transform, R(x), R(y))
          IN  /\ temporaryDot' =
                   Some([temporaryDot[1] EXCEPT !.x = t.x, !.y = t.y])
              /\ highlightedRing' = getRingAtPoint(t.x, t.y)
              /\ UNCHANGED <<transform, lastTouchDistance, lastTouchCenter>>
     ELSE IF /\ Len(ts) = 2
             /\ Truthy(lastTouchDistance)
             /\ lastTouchCenter # None
     THEN LET x1 == ts[1][1] - rect.left
              y1 == ts[1][2] - rect.top
              x2 == ts[2][1] - rect.left
              y2 == ts[2][2] - rect.top
              distance == R(getDistance(x1, y1, x2, y2))
              center == getCenter(x1, y1, x2, y2)
          IN  /\ transform' = pinchTransform(transform, lastTouchDistance[1],
                                             lastTouchCenter[1], distance,
                                             center)
              /\ lastTouchDistance' = Some(distance)
              /\ lastTouchCenter' = Some(center)
              /\ UNCHANGED <<temporaryDot, highlightedRing>>
     ELSE UNCHANGED <<transform, temporaryDot, highlightedRing,
                      lastTouchDistance, lastTouchCenter>>
  /\ UNCHANGED <<pointer, rect, dots, longPressTimer, draggedDotId, mouseDownInfo,
                 touchStartInfo, wasPinch, pendingTimers, uuidCount,
                 buttonHeld>>

handleTouchEnd(ts) ==
  /\ touches' = ts
  /\ ClearLongPress
  /\ IF Len(ts) = 0
     THEN /\ IF draggedDotId # None /\ temporaryDot # None
             THEN /\ dots' = appendDot(dots, Committed(temporaryDot[1]))
                  /\ temporaryDot' = None
                  /\ draggedDotId' = None
                  /\ highlightedRing' = None
                  /\ UNCHANGED uuidCount
             ELSE IF /\ touchStartInfo # None
                     /\ ~touchStartInfo[1].longPress
                     /\ ~wasPinch
             THEN /\ dots' = appendDot(dots,
                       NewDot(uuidCount + 1,
                              screenToTarget(transform,
                                             R(touchStartInfo[1].x),
                                             R(touchStartInfo[1].y)),
                              FALSE))
                  /\ uuidCount' = uuidCount + 1
                  /\ UNCHANGED <<temporaryDot, draggedDotId, highlightedRing>>
             ELSE UNCHANGED <<dots, temporaryDot, draggedDotId,
                              highlightedRing, uuidCount>>
          /\ lastTouchDistance' = None
          /\ lastTouchCenter' = None
          /\ touchStartInfo' = None
          /\ wasPinch' = FALSE
     ELSE UNCHANGED <<dots, temporaryDot, draggedDotId, highlightedRing,
                      uuidCount, lastTouchDistance, lastTouchCenter,
                      touchStartInfo, wasPinch>>
  /\ UNCHANGED <<pointer, rect, transform, mouseDownInfo, buttonHeld, nZoom>>


\* ------------------------------------------------------------------------
\* Mouse handlers
\* ------------------------------------------------------------------------
handleMouseDown(button, p) ==
  /\ buttonHeld' = Some(button)
  /\ IF button # 0
     THEN UNCHANGED <<mouseDownInfo, pendingTimers, longPressTimer>>
     ELSE LET x == p[1] - rect.left
              y == p[2] - rect.top
              id == NewTimerId
          IN  /\ mouseDownInfo' = Some([x |-> x, y |-> y,
                                        screenX |-> p[1], screenY |-> p[2],
                                        longPress |-> FALSE])
              /\ pendingTimers' = pendingTimers \cup
                   {[id |-> id, kind |-> "mouse", x |-> x, y |-> y,
                     transform |-> transform]}
              /\ longPressTimer' = Some(id)
  /\ UNCHANGED <<pointer, rect, transform, dots, temporaryDot, highlightedRing,
                 lastTouchDistance, lastTouchCenter, draggedDotId,
                 touchStartInfo, wasPinch, uuidCount, touches, nZoom>>

\* mutant of handleMouseMove: the ring under the pointer is highlighted
\* whether or not a temporary dot is being dragged
handleMouseMoveUnguarded(p) ==
  /\ pointer' = p
  /\ LET x == p[1] - rect.left
         y == p[2] - rect.top
         t == screenToTarget(transform, R(x), R(y))
     IN  /\ temporaryDot' =
              IF temporaryDot # None /\ draggedDotId # None
              THEN Some([temporaryDot[1] EXCEPT !.x = t.x, !.y = t.y])
              ELSE temporaryDot
         /\ highlightedRing' = getRingAtPoint(t.x, t.y)
  /\ UNCHANGED <<rect, transform, dots, lastTouchDistance, lastTouchCenter,
                 longPressTimer, draggedDotId, mouseDownInfo, touchStartInfo,
                 wasPinch, pendingTimers, uuidCount, buttonHeld, touches,
                 nZoom>>

\* mutant of handleMouseMove: the highlighted ring is not recomputed
handleMouseMoveKeepsRing(p) ==
  /\ pointer' = p
  /\ IF temporaryDot # None /\ draggedDotId # None
     THEN LET x == p[1] - rect.left
              y == p[2] - rect.top
              t == screenToTarget(transform, R(x), R(y))
          IN  /\ temporaryDot' =
                   Some([temporaryDot[1] EXCEPT !.x = t.x, !.y = t.y])
              /\ UNCHANGED highlightedRing
     ELSE UNCHANGED <<temporaryDot, highlightedRing>>
  /\ UNCHANGED <<rect, transform, dots, lastTouchDistance, lastTouchCenter,
                 longPressTimer, draggedDotId, mouseDownInfo, touchStartInfo,
                 wasPinch, pendingTimers, uuidCount, buttonHeld, touches,
                 nZoom>>

handleMouseMove(p) ==
  /\ pointer' = p
  /\ IF temporaryDot # None /\ draggedDotId # None
     THEN LET x == p[1] - rect.left
              y == p[2] - rect.top
              t == screenToTarget(transform, R(x), R(y))
          IN  /\ temporaryDot' =
                   Some([temporaryDot[1] EXCEPT !.x = t.x, !.y = t.y])
              /\ highlightedRing' = getRingAtPoint(t.x, t.y)
     ELSE UNCHANGED <<temporaryDot, highlightedRing>>
  /\ UNCHANGED <<rect, transform, dots, lastTouchDistance, lastTouchCenter,
                 longPressTimer, draggedDotId, mouseDownInfo, touchStartInfo,
                 wasPinch, pendingTimers, uuidCount, buttonHeld, touches,
                 nZoom>>

\* mutant of handleMouseUp: the tap branch is not exclusive and does not look
\* at the long-press mark, so a released long-press also places a tap dot
handleMouseUpBothBranches ==
  /\ buttonHeld' = None
  /\ ClearLongPress
  /\ IF temporaryDot # None /\ draggedDotId # None
     THEN /\ dots' =
               IF mouseDownInfo # None
               THEN Append(Append(dots, Committed(temporaryDot[1])),
                           NewDot(uuidCount + 1,
                                  screenToTarget(transform,
                                                 R(mouseDownInfo[1].x),
                                                 R(mouseDownInfo[1].y)),
                                  FALSE))
               ELSE Append(dots, Committed(temporaryDot[1]))
          /\ temporaryDot' = None
          /\ draggedDotId' = None
          /\ highlightedRing' = None
          /\ uuidCount' = IF mouseDownInfo # None THEN uuidCount + 1
                          ELSE uuidCount
     ELSE IF mouseDownInfo # None
     THEN /\ dots' = Append(dots,
               NewDot(uuidCount + 1,
                      screenToTarget(transform, R(mouseDownInfo[1].x),
                                     R(mouseDownInfo[1].y)),
                      FALSE))
          /\ uuidCount' = uuidCount + 1
          /\ UNCHANGED <<temporaryDot, draggedDotId, highlightedRing>>
     ELSE UNCHANGED <<dots, temporaryDot, draggedDotId, highlightedRing,
                      uuidCount>>
  /\ mouseDownInfo' = None
  /\ UNCHANGED <<pointer, rect, transform, lastTouchDistance, lastTouchCenter,
                 touchStartInfo, wasPinch, touches, nZoom>>

\* mutant of handleMouseUp: the recorded press origin is not cleared
handleMouseUpKeepsOrigin ==
  /\ buttonHeld' = None
  /\ ClearLongPress
  /\ IF temporaryDot # None /\ draggedDotId # None
     THEN /\ dots' = appendDot(dots, Committed(temporaryDot[1]))
          /\ temporaryDot' = None
          /\ draggedDotId' = None
          /\ highlightedRing' = None
          /\ UNCHANGED uuidCount
     ELSE IF mouseDownInfo # None /\ ~mouseDownInfo[1].longPress
     THEN /\ dots' = appendDot(dots,
               NewDot(uuidCount + 1,
                      screenToTarget(transform, R(mouseDownInfo[1].x),
                                     R(mouseDownInfo[1].y)),
                      FALSE))
          /\ uuidCount' = uuidCount + 1
          /\ UNCHANGED <<temporaryDot, draggedDotId, highlightedRing>>
     ELSE UNCHANGED <<dots, temporaryDot, draggedDotId, highlightedRing,
                      uuidCount>>
  /\ UNCHANGED <<mouseDownInfo, pointer, rect, transform, lastTouchDistance,
                 lastTouchCenter, touchStartInfo, wasPinch, touches, nZoom>>

handleMouseUp ==
  /\ buttonHeld' = None
  /\ ClearLongPress
  /\ IF temporaryDot # None /\ draggedDotId # None
     THEN /\ dots' = appendDot(dots, Committed(temporaryDot[1]))
          /\ temporaryDot' = None
          /\ draggedDotId' = None
          /\ highlightedRing' = None
          /\ UNCHANGED uuidCount
     ELSE IF mouseDownInfo # None /\ ~mouseDownInfo[1].longPress
     THEN /\ dots' = appendDot(dots,
               NewDot(uuidCount + 1,
                      screenToTarget(transform, R(mouseDownInfo[1].x),
                                     R(mouseDownInfo[1].y)),
                      FALSE))
          /\ uuidCount' = uuidCount + 1
          /\ UNCHANGED <<temporaryDot, draggedDotId, highlightedRing>>
     ELSE UNCHANGED <<dots, temporaryDot, draggedDotId, highlightedRing,
                      uuidCount>>
  /\ mouseDownInfo' = None
  /\ UNCHANGED <<pointer, rect, transform, lastTouchDistance, lastTouchCenter,
                 touchStartInfo, wasPinch, touches, nZoom>>

\* ------------------------------------------------------------------------
\* The long-press callback given to window.setTimeout.  It runs with the
\* x, y and screenToTarget (hence the transform) of the render in which the
\* press handler was created.
\* ------------------------------------------------------------------------
longPressCallback(t) ==
  /\ pendingTimers' = pendingTimers \ {t}
  /\ LET pt == screenToTarget(t.transform, R(t.x), R(t.y))
     IN  /\ temporaryDot' = Some(NewDot(uuidCount + 1, pt, TRUE))
         /\ draggedDotId' = Some(uuidCount + 1)
  /\ uuidCount' = uuidCount + 1
  /\ IF t.kind = "touch"
     THEN /\ touchStartInfo' =
               IF touchStartInfo # None
               THEN Some([touchStartInfo[1] EXCEPT !.longPress = TRUE])
               ELSE None
          /\ UNCHANGED mouseDownInfo
     ELSE /\ mouseDownInfo' =
               IF mouseDownInfo # None
               THEN Some([mouseDownInfo[1] EXCEPT !.longPress = TRUE])
               ELSE None
          /\ UNCHANGED touchStartInfo
  /\ UNCHANGED <<pointer, rect, transform, dots, highlightedRing, lastTouchDistance,
                 lastTouchCenter, longPressTimer, wasPinch, buttonHeld,
                 touches, nZoom>>

\* ------------------------------------------------------------------------
\* Wheel handler
\* ------------------------------------------------------------------------
handleWheel(p, deltaY) ==
  /\ nZoom' = nZoom + 1
  /\ transform' = wheelTransform(transform, rect, p, deltaY)
  /\ UNCHANGED <<pointer, rect, dots, temporaryDot, highlightedRing, lastTouchDistance,
                 lastTouchCenter, longPressTimer, draggedDotId, mouseDownInfo,
                 touchStartInfo, wasPinch, pendingTimers, uuidCount,
                 buttonHeld, touches>>

\* ------------------------------------------------------------------------
\* useScreenSize: the resize listener stores the new window size.  The
\* component renders again; the initial value given to useState for the
\* transform is not used again.
\* ------------------------------------------------------------------------
\* mutant of handleResize: the transform is centred again on the new size
handleResizeRecentres(size) ==
  /\ screenSize' = size
  /\ transform' = [transform EXCEPT !.x = Frac(size.width, 2),
                                    !.y = Frac(size.height, 2)]
  /\ UNCHANGED <<pointer, rect, dots, temporaryDot, highlightedRing,
                 lastTouchDistance, lastTouchCenter, longPressTimer,
                 draggedDotId, mouseDownInfo, touchStartInfo, wasPinch,
                 pendingTimers, uuidCount, buttonHeld, touches, nZoom>>

handleResize(size) ==
  /\ screenSize' = size
  /\ UNCHANGED <<pointer, rect, transform, dots, temporaryDot, highlightedRing,
                 lastTouchDistance, lastTouchCenter, longPressTimer,
                 draggedDotId, mouseDownInfo, touchStartInfo, wasPinch,
                 pendingTimers, uuidCount, buttonHeld, touches, nZoom>>

\* ------------------------------------------------------------------------
\* The commit that follows a handler.  The component renders with the new
\* state and its effects run in the order they are declared: first the
\* enclosing-circle effect, when dots or temporaryDot changed, which stores
\* the new circle for the next render; then the draw effect, when one of
\* the values draw depends on changed, which paints with the enclosingCircle
\* of this render.  A stored circle renders again, and draw runs a second
\* time with it.  (A setter given an equal value in a fresh object repeats a
\* draw of the same content; such repeats are not recorded.)
\* ------------------------------------------------------------------------
Commit ==
  LET recompute == <<dots', temporaryDot'>> # <<dots, temporaryDot>>
      redraw == <<transform', dots', temporaryDot', highlightedRing'>>
                  # <<transform, dots, temporaryDot, highlightedRing>>
  IN  /\ enclosingCircle' =
           IF recompute
           THEN calculateEnclosingCircle(AllDots(dots', temporaryDot'))
           ELSE enclosingCircle
      /\ drawn' =
           IF recompute /\ (enclosingCircle' # None \/ enclosingCircle # None)
           THEN <<Painted(dots', temporaryDot', enclosingCircle),
                  Painted(dots', temporaryDot', enclosingCircle')>>
           ELSE IF redraw
           THEN <<Painted(dots', temporaryDot', enclosingCircle)>>
           ELSE <<>>

\* ------------------------------------------------------------------------
\* The event source (input contract): one pointer stream (down, move*, up)
\* or up to two concurrent touch streams, never both at once; wheel events
\* and the timer callback interleave freely.  Mouse-down and wheel events
\* happen where the pointer is; a move event reports a changed position.
\* ------------------------------------------------------------------------
\* no mouse button is held and no touch is active
Idle == buttonHeld = None /\ touches = <<>>

\* History of the interaction (from the first down until everything is up):
\* the number of dots it appended, and whether it ended as a tap (a dot
\* appended with no temporary dot), a drag (the temporary dot committed) or a
\* pinch (released with the pinch flag set and no dot appended).
Track ==
  /\ UNCHANGED <<budget, call>>
  /\ added' = (IF Idle THEN 0 ELSE added) + Len(dots') - Len(dots)
  /\ lastOutcome' =
       IF Len(dots') > Len(dots)
       THEN (IF temporaryDot # None THEN "drag" ELSE "tap")
       ELSE IF touches # <<>> /\ touches' = <<>> /\ wasPinch THEN "pinch"
       ELSE IF Idle /\ (buttonHeld' # None \/ touches' # <<>>) THEN "none"
       ELSE lastOutcome

MouseDown ==
  /\ buttonHeld = None
  /\ touches = <<>>
  /\ Len(dots) < budget.dots
  /\ \E b \in Buttons : handleMouseDown(b, pointer)
  /\ UNCHANGED screenSize
  /\ Commit
  /\ Track

MouseMove ==
  /\ touches = <<>>
  /\ \E p \in MousePts \ {pointer} : handleMouseMove(p)
  /\ UNCHANGED screenSize
  /\ Commit
  /\ Track

MouseUp ==
  /\ buttonHeld # None
  /\ handleMouseUp
  /\ UNCHANGED screenSize
  /\ Commit
  /\ Track

TouchStart ==
  /\ buttonHeld = None
  /\ \/ /\ touches = <<>>
        /\ Len(dots) < budget.dots
        /\ \E p \in FirstTouchPts : handleTouchStart(<<p>>)
     \/ /\ Len(touches) = 1
        /\ \E ts \in PinchConfigs :
             /\ ts[1] = touches[1]
             /\ handleTouchStart(ts)
  /\ UNCHANGED screenSize
  /\ Commit
  /\ Track

TouchMove ==
  \/ /\ Len(touches) = 1
     /\ \E p \in TouchMovePts \ {touches[1]} : handleTouchMove(<<p>>)
     /\ UNCHANGED screenSize
     /\ Commit
     /\ Track
  \/ /\ Len(touches) = 2
     /\ nZoom < budget.zoom
     /\ \E ts \in PinchConfigs \ {touches} : handleTouchMove(ts)
     /\ UNCHANGED screenSize
     /\ Commit
     /\ Track

TouchEnd ==
  /\ touches # <<>>
  /\ \E i \in 1..Len(touches) :
       handleTouchEnd(SubSeq(touches, 1, i - 1)
                      \o SubSeq(touches, i + 1, Len(touches)))
  /\ UNCHANGED screenSize
  /\ Commit
  /\ Track

Wheel ==
  /\ nZoom < budget.zoom
  /\ \E d \in DeltaYs : handleWheel(pointer, d)
  /\ UNCHANGED screenSize
  /\ Commit
  /\ Track

TimerFires ==
  /\ \E t \in pendingTimers : longPressCallback(t)
  /\ UNCHANGED screenSize
  /\ Commit
  /\ Track

Resize ==
  /\ budget.resize
  /\ \E size \in ScreenSizes \ {screenSize} : handleResize(size)
  /\ Commit
  /\ Track

Next ==
  \/ MouseDown
  \/ MouseMove
  \/ MouseUp
  \/ TouchStart
  \/ TouchMove
  \/ TouchEnd
  \/ Wheel
  \/ TimerFires
  \/ Resize

Spec == Init /\ [][Next]_vars

\* ------------------------------------------------------------------------
\* Direct calls of the pure helpers, on inputs drawn from the probe sets
\* ------------------------------------------------------------------------
CallGetRingAtPoint ==
  /\ call.fn = "none"
  /\ \E x \in RingProbeCoords, y \in RingProbeCoords :
       call' = [fn |-> "getRingAtPoint", args |-> <<x, y>>,
                result |-> getRingAtPoint(x, y)]
  /\ UNCHANGED board

CallCalculateEnclosingCircle ==
  /\ call.fn = "none"
  /\ \E pts \in DotLists :
       LET allDots == [i \in DOMAIN pts |->
                         NewDot(i, [x |-> R(pts[i][1]), y |-> R(pts[i][2])],
                                FALSE)]
       IN  call' = [fn |-> "calculateEnclosingCircle", args |-> <<allDots>>,
                    result |-> calculateEnclosingCircle(allDots)]
  /\ UNCHANGED board

HelperNext ==
  \/ CallGetRingAtPoint
  \/ CallCalculateEnclosingCircle

HelperSpec == Init /\ [][HelperNext]_vars

\* ------------------------------------------------------------------------
\* An event source that breaks the input contract: a mouse-down or a
\* touch-down may fail to reach the component, so that the moves and the
\* release that follow it arrive with nothing recorded for them.
\* ------------------------------------------------------------------------
LostMouseDown ==
  /\ buttonHeld = None
  /\ touches = <<>>
  /\ buttonHeld' = Some(0)
  /\ UNCHANGED <<screenSize, rect, transform, dots, temporaryDot,
                 enclosingCircle, highlightedRing, lastTouchDistance,
                 lastTouchCenter, longPressTimer, draggedDotId, mouseDownInfo,
                 touchStartInfo, wasPinch, pendingTimers, uuidCount, drawn,
                 touches, pointer, nZoom>>
  /\ Track

LostTouchStart ==
  /\ buttonHeld = None
  /\ \/ touches = <<>> /\ \E p \in FirstTouchPts : touches' = <<p>>
     \/ Len(touches) = 1 /\ \E ts \in PinchConfigs :
                               ts[1] = touches[1] /\ touches' = ts
  /\ UNCHANGED <<screenSize, rect, transform, dots, temporaryDot,
                 enclosingCircle, highlightedRing, lastTouchDistance,
                 lastTouchCenter, longPressTimer, draggedDotId, mouseDownInfo,
                 touchStartInfo, wasPinch, pendingTimers, uuidCount, drawn,
                 buttonHeld, pointer, nZoom>>
  /\ Track

MalformedNext ==
  \/ MouseDown
  \/ MouseMove
  \/ MouseUp
  \/ TouchStart
  \/ TouchMove
  \/ TouchEnd
  \/ Wheel
  \/ TimerFires
  \/ LostMouseDown
  \/ LostTouchStart

MalformedSpec ==
  /\ InitWith({[dots |-> MaxDots - 1, zoom |-> MaxZoom - 1, resize |-> FALSE]})
  /\ [][MalformedNext]_vars


\* ------------------------------------------------------------------------
\* Vocabulary of the properties
\* ------------------------------------------------------------------------
\* which event a step is, read off the event source's state
MouseDownStep == buttonHeld = None /\ buttonHeld' # None
MouseUpStep == buttonHeld # None /\ buttonHeld' = None
MouseMoveStep == pointer' # pointer
TouchStartStep == Len(touches') = Len(touches) + 1
TouchEndStep == Len(touches') = Len(touches) - 1
TouchMoveStep == Len(touches') = Len(touches) /\ touches' # touches
WheelStep == nZoom' = nZoom + 1 /\ touches' = touches
TimerStep == pendingTimers' # pendingTimers /\ UNCHANGED <<buttonHeld, touches>>
\* the step that lifts the last pointer or touch
ReleaseStep == ~Idle /\ Idle'

\* a client point in canvas coordinates
Canvas(p) == [x |-> R(p[1] - rect.left), y |-> R(p[2] - rect.top)]
\* the screen point at which a dot is drawn under transform t
ScreenOf(t, dot) == targetToScreen(t, dot.x, dot.y)
\* the step appends exactly one dot and leaves the earlier ones alone
AppendsOne == Len(dots') = Len(dots) + 1 /\ SubSeq(dots', 1, Len(dots)) = dots
Last(q) == q[Len(q)]
Ids(q) == {q[i].id : i \in 1..Len(q)}

\* ------------------------------------------------------------------------
\* C1: one interaction (from the first pointer or touch down until all are
\* up) appends at most one dot to the committed dot list.
\* ------------------------------------------------------------------------
AtMostOneDotPerInteraction == added <= 1

\* an interaction that came after an earlier dot has appended its one dot
SecondInteractionAddedDot == Idle /\ added = 1 /\ Len(dots) = 2

\* ------------------------------------------------------------------------
\* C2: an interaction has exactly one outcome: one that is treated as a pinch
\* (pinch flag set by a second touch-down) neither holds a long-press
\* temporary dot nor commits a dot when it is released.
\* ------------------------------------------------------------------------
PinchXorLongPress ==
  [][/\ wasPinch => temporaryDot = None
     /\ (wasPinch /\ ReleaseStep) => dots' = dots]_vars

\* ------------------------------------------------------------------------
\* C3: the long-press timer is cancelled on every path that leaves Pressed
\* before it fires: a timer is pending only while exactly one pointer or
\* touch is down, no second touch has arrived and no temporary dot exists;
\* in particular none is pending once the interaction is released or has
\* become a pinch.
\* ------------------------------------------------------------------------
Pressed ==
  \/ buttonHeld = Some(0) /\ touches = <<>> /\ mouseDownInfo # None
  \/ buttonHeld = None /\ Len(touches) = 1 /\ ~wasPinch /\ touchStartInfo # None

TimerPendingOnlyWhilePressed ==
  pendingTimers # {} =>
    /\ Cardinality(pendingTimers) = 1
    /\ Pressed
    /\ temporaryDot = None
    /\ longPressTimer = Some((CHOOSE t \in pendingTimers : TRUE).id)

\* a second touch arrived before the timer fired, and the timer is gone
TimerCancelledBySecondTouch ==
  Len(touches) = 2 /\ wasPinch /\ temporaryDot = None /\ pendingTimers = {}

\* ------------------------------------------------------------------------
\* C4: tap.  The press handlers record the down position; while the timer is
\* pending the record stays; a release while the timer is still pending
\* appends exactly one committed dot (both flags false, fresh id) that lies
\* under the down position (under the transform at release), and leaves no
\* temporary dot and no pending timer.
\* ------------------------------------------------------------------------
DownRecorded ==
  /\ (MouseDownStep /\ buttonHeld' = Some(0)) =>
       /\ mouseDownInfo' # None
       /\ [x |-> R(mouseDownInfo'[1].x), y |-> R(mouseDownInfo'[1].y)]
            = Canvas(pointer)
       /\ pendingTimers' # {}
  /\ (TouchStartStep /\ touches = <<>>) =>
       /\ touchStartInfo' # None
       /\ [x |-> R(touchStartInfo'[1].x), y |-> R(touchStartInfo'[1].y)]
            = Canvas(touches'[1])
       /\ pendingTimers' # {}
  /\ (pendingTimers # {} /\ pendingTimers' # {}) =>
       UNCHANGED <<mouseDownInfo, touchStartInfo>>

TapRelease == ReleaseStep /\ pendingTimers # {}

TapOrigin ==
  IF buttonHeld # None
  THEN [x |-> R(mouseDownInfo[1].x), y |-> R(mouseDownInfo[1].y)]
  ELSE [x |-> R(touchStartInfo[1].x), y |-> R(touchStartInfo[1].y)]

TapPlacesOneDot ==
  [][/\ DownRecorded
     /\ TapRelease =>
          /\ AppendsOne
          /\ ~Last(dots').isTemporary
          /\ ~Last(dots').isDragging
          /\ Last(dots').id \notin Ids(dots)
          /\ ScreenOf(transform', Last(dots')) = TapOrigin
          /\ temporaryDot' = None
          /\ pendingTimers' = {}]_vars

\* a tap after a zoom, onto a list that already holds a dot
TappedAfterZoom ==
  Idle /\ lastOutcome = "tap" /\ Len(dots) = 2 /\ transform.scale # R(1)

\* ------------------------------------------------------------------------
\* C5: long-press drag.  While a temporary dot exists, a single-pointer move
\* puts it under the new pointer position and every other step before the
\* release leaves it alone; the release appends exactly that dot with both
\* flags false and leaves no temporary dot and no highlighted ring.
\* ------------------------------------------------------------------------
SinglePointerMove ==
  \/ MouseMoveStep
  \/ TouchMoveStep /\ Len(touches) = 1

MovedTo == IF MouseMoveStep THEN pointer' ELSE touches'[1]

DragCommitsLastPosition ==
  [][temporaryDot # None =>
       /\ SinglePointerMove =>
            /\ temporaryDot' # None
            /\ ScreenOf(transform, temporaryDot'[1]) = Canvas(MovedTo)
            /\ temporaryDot'[1].id = temporaryDot[1].id
       /\ (~SinglePointerMove /\ ~ReleaseStep) => temporaryDot' = temporaryDot
       /\ ReleaseStep =>
            /\ AppendsOne
            /\ Last(dots') = [temporaryDot[1] EXCEPT !.isTemporary = FALSE,
                                                      !.isDragging = FALSE]
            /\ temporaryDot' = None
            /\ highlightedRing' = None]_vars

\* a drag was released onto a list that already holds a dot, and the dot it
\* committed lies under the pointer
DragCommitted ==
  /\ Idle /\ lastOutcome = "drag" /\ Len(dots) = 2
  /\ ScreenOf(transform, Last(dots)) = Canvas(pointer)
  /\ ~Last(dots).isTemporary

\* ------------------------------------------------------------------------
\* C6: pinch suppresses the tap.  When a second touch-down arrives while the
\* long-press timer is pending, the interaction is from then on a pinch
\* without a temporary dot, and until its last touch is lifted no step
\* creates a dot, committed or temporary.
\* ------------------------------------------------------------------------
PurePinch ==
  touches # <<>> /\ wasPinch /\ temporaryDot = None /\ pendingTimers = {}

PinchSuppressesTap ==
  [][/\ (TouchStartStep /\ Len(touches) = 1 /\ pendingTimers # {}) => PurePinch'
     /\ PurePinch =>
          /\ dots' = dots
          /\ temporaryDot' = None
          /\ touches' # <<>> => PurePinch']_vars

\* the trailing single touch of a pinch was lifted and no dot was added
PinchReleasedWithoutDot ==
  Idle /\ lastOutcome = "pinch" /\ added = 0 /\ temporaryDot = None

\* ------------------------------------------------------------------------
\* C7: in every reachable state the scale lies in [0.1, 5.0].
\* ------------------------------------------------------------------------
ScaleWithinBounds ==
  /\ transform.scale[2] > 0
  /\ transform.scale[1] * 10 >= transform.scale[2]
  /\ transform.scale[1] <= 5 * transform.scale[2]

\* two zoom events were applied and the scale sits at a limit
ScaleAtLimitAfterZooms ==
  nZoom = 2 /\ (transform.scale = <<1, 10>> \/ transform.scale = <<5, 1>>)

\* ------------------------------------------------------------------------
\* C8: pinch pivot invariance.  After a two-touch move that changes the
\* transform, the board point that was under the two-finger midpoint before
\* the move is under the midpoint after it.
\* ------------------------------------------------------------------------
Midpoint(ts) ==
  [x |-> Frac(ts[1][1] + ts[2][1] - 2 * rect.left, 2),
   y |-> Frac(ts[1][2] + ts[2][2] - 2 * rect.top, 2)]

BoardUnder(t, pt) ==
  [x |-> RDiv(RSub(pt.x, t.x), t.scale), y |-> RDiv(RSub(pt.y, t.y), t.scale)]

PinchKeepsMidpoint ==
  [][(TouchMoveStep /\ Len(touches) = 2 /\ transform' # transform) =>
       BoardUnder(transform', Midpoint(touches'))
         = BoardUnder(transform, Midpoint(touches))]_vars

\* ------------------------------------------------------------------------
\* C9: wheel-zoom pivot invariance.  The board point under the position of a
\* wheel event is the same before and after the event.
\* ------------------------------------------------------------------------
WheelKeepsPivot ==
  [][WheelStep =>
       BoardUnder(transform', Canvas(pointer))
         = BoardUnder(transform, Canvas(pointer))]_vars

\* ------------------------------------------------------------------------
\* C10: a two-touch move with last recorded distance d0 > 0 and new finger
\* distance d1 sets the scale to clamp(scale * d1 / d0, 0.1, 5) and records
\* d1; the recorded distance of a running pinch is the finger distance of
\* the previous event, not the one at pinch start.
\* ------------------------------------------------------------------------
FingerDistance(ts) ==
  CHOOSE d \in 0..(Abs(ts[2][1] - ts[1][1]) + Abs(ts[2][2] - ts[1][2])) :
    d * d = (ts[2][1] - ts[1][1]) * (ts[2][1] - ts[1][1])
            + (ts[2][2] - ts[1][2]) * (ts[2][2] - ts[1][2])

Clamped(n, d) ==
  IF n * 10 < d THEN <<1, 10>> ELSE IF n > 5 * d THEN <<5, 1>> ELSE Norm(n, d)

PinchScalesByDistanceRatio ==
  [][/\ (Len(touches) = 2 /\ lastTouchDistance # None
         /\ lastTouchDistance[1][1] > 0) =>
          lastTouchDistance[1] = <<FingerDistance(touches), 1>>
     /\ (TouchMoveStep /\ Len(touches) = 2 /\ lastTouchDistance # None
         /\ lastTouchDistance[1][1] > 0) =>
          /\ transform'.scale =
               Clamped(transform.scale[1] * FingerDistance(touches')
                         * lastTouchDistance[1][2],
                       transform.scale[2] * lastTouchDistance[1][1])
          /\ lastTouchDistance' = Some(<<FingerDistance(touches'), 1>>)]_vars

\* one pinch: 10 -> 100 (scale clamped to 5), then 100 -> 25 (scale 5/4)
PinchedTwice ==
  /\ nZoom = 2 /\ Len(touches) = 2
  /\ lastTouchDistance = Some(<<25, 1>>)
  /\ transform.scale = <<5, 4>>

\* ------------------------------------------------------------------------
\* C11: the committed dot list is append-only.  In every step the previous
\* list is a prefix of the new one, so no committed dot is removed or
\* changes its id, coordinates or flags.
\* ------------------------------------------------------------------------
DotsAppendOnly ==
  [][/\ Len(dots') >= Len(dots)
     /\ \A i \in 1..Len(dots) : dots'[i] = dots[i]]_vars

\* a second dot was committed behind a first one, after a zoom
TwoDotsInPlacementOrder ==
  /\ Len(dots) = 2 /\ nZoom = 1
  /\ dots[1].id < dots[2].id

\* ------------------------------------------------------------------------
\* C12: getRingAtPoint partitions the plane.  A board point at distance d
\* from the origin with 0 < d <= 180 is mapped to the one ring index i with
\* innerRadius(i) < d <= outerRadius(i), where outerRadius(i) = 180 - 18 i
\* and innerRadius(i) = outerRadius(i) - 18 for i = 0..9; the centre and
\* every point with d > 180 are mapped to none.  (The probe coordinates are
\* whole or half numbers: the comparison is made on (2 d)^2.)
\* ------------------------------------------------------------------------
Twice(q) == q[1] * (2 \div q[2])

RingsAround(dd) ==
  {i \in 0..9 : /\ (2 * (180 - 18 * i - 18)) * (2 * (180 - 18 * i - 18)) < dd
                /\ dd <= (2 * (180 - 18 * i)) * (2 * (180 - 18 * i))}

RingsPartitionThePlane ==
  call.fn = "getRingAtPoint" =>
    LET dd == Twice(call.args[1]) * Twice(call.args[1])
              + Twice(call.args[2]) * Twice(call.args[2])
    IN  /\ Cardinality(RingsAround(dd)) <= 1
        /\ (0 < dd /\ dd <= 360 * 360) =>
             /\ Cardinality(RingsAround(dd)) = 1
             /\ call.result # None
             /\ call.result[1] \in RingsAround(dd)
        /\ (dd = 0 \/ dd > 360 * 360) => call.result = None

\* a point on the outermost border (distance exactly 180) is in ring 0
OuterBorderIsRingZero ==
  /\ call.fn = "getRingAtPoint"
  /\ call.args = <<R(108), R(-144)>>
  /\ call.result = Some(0)

\* ------------------------------------------------------------------------
\* C13: calculateEnclosingCircle returns none for no dots, the dot itself
\* with radius 0 for one dot, and for every non-empty list the centroid as
\* centre and as radius the largest distance of a dot from the centre, so
\* that every dot is within the radius.  (Radii are compared by their
\* squares; the probe dots have whole coordinates.)
\* ------------------------------------------------------------------------
\* the sum of f[1..n]
RECURSIVE SumTo(_, _)
SumTo(f, n) == IF n = 0 THEN 0 ELSE SumTo(f, n - 1) + f[n]

CircleEnclosesDots ==
  call.fn = "calculateEnclosingCircle" =>
    LET ds == call.args[1]
        n == Len(ds)
        c == call.result
        sx == SumTo([i \in 1..n |-> ds[i].x[1]], n)
        sy == SumTo([i \in 1..n |-> ds[i].y[1]], n)
        \* n * n times the squared distance of dot i from the centroid
        far(i) == (n * ds[i].x[1] - sx) * (n * ds[i].x[1] - sx)
                  + (n * ds[i].y[1] - sy) * (n * ds[i].y[1] - sy)
    IN  /\ n = 0 => c = None
        /\ n = 1 => c = Some([x |-> ds[1].x, y |-> ds[1].y, radiusSq |-> R(0)])
        /\ n > 0 =>
             /\ c # None
             /\ c[1].x[1] * n = sx * c[1].x[2]
             /\ c[1].y[1] * n = sy * c[1].y[2]
             /\ \A i \in 1..n :
                  far(i) * c[1].radiusSq[2] <= c[1].radiusSq[1] * n * n
             /\ \E i \in 1..n :
                  far(i) * c[1].radiusSq[2] = c[1].radiusSq[1] * n * n

\* three dots that are not on a line: centroid (1, 4), radius^2 = 41
CircleOfThreeDots ==
  /\ call.fn = "calculateEnclosingCircle"
  /\ Len(call.args[1]) = 3
  /\ call.result = Some([x |-> R(1), y |-> R(4), radiusSq |-> R(41)])

\* ------------------------------------------------------------------------
\* C14: malformed input is a no-op.  A mouse move or single-touch move with
\* no temporary dot, a two-touch move with no recorded pinch baseline, and a
\* mouse-up or touch-end with no recorded press origin leave the committed
\* dots, the temporary dot, the highlighted ring and the transform as they
\* were.
\* ------------------------------------------------------------------------
ModelUntouched == UNCHANGED <<dots, temporaryDot, highlightedRing, transform>>

MalformedInputIsNoOp ==
  [][/\ (MouseMoveStep /\ temporaryDot = None) => ModelUntouched
     /\ (TouchMoveStep /\ Len(touches) = 1 /\ temporaryDot = None) =>
          ModelUntouched
     /\ (TouchMoveStep /\ Len(touches) = 2 /\ lastTouchDistance = None
         /\ lastTouchCenter = None) => ModelUntouched
     /\ ((MouseUpStep \/ TouchEndStep) /\ mouseDownInfo = None
         /\ touchStartInfo = None) => ModelUntouched]_vars

\* two touches the component saw no touch-down of have moved, and the
\* transform is still the initial one
MovedWithoutBaseline ==
  /\ Len(touches) = 2 /\ lastTouchDistance = None /\ touchStartInfo = None
  /\ nZoom = 1 /\ transform.scale = R(1)

\* ------------------------------------------------------------------------
\* C15: a two-touch move whose last recorded finger distance is zero divides
\* by nothing and leaves the scale as it was.
\* ------------------------------------------------------------------------
ZeroDistanceKeepsScale ==
  [][(TouchMoveStep /\ Len(touches) = 2 /\ lastTouchDistance = Some(R(0))) =>
       /\ transform'.scale = transform.scale
       /\ transform'.scale[2] > 0
       /\ transform'.x[2] > 0
       /\ transform'.y[2] > 0]_vars

\* the fingers have moved apart from a recorded distance of zero
MovedApartFromZeroDistance ==
  /\ Len(touches) = 2 /\ lastTouchDistance = Some(R(0))
  /\ touches[1] # touches[2]
  /\ nZoom >= 1

\* ------------------------------------------------------------------------
\* C16: when the long-press timer fires, the temporary dot it creates has
\* both flags set and lies under the pointer as it is at that moment, under
\* the transform as it is at that moment, whatever moves and wheel zooms
\* came between the press and the firing.
\* ------------------------------------------------------------------------
PointerNow == IF buttonHeld # None THEN pointer ELSE touches[1]

LongPressDotUnderPointer ==
  [][TimerStep =>
       /\ temporaryDot' # None
       /\ temporaryDot'[1].isTemporary
       /\ temporaryDot'[1].isDragging
       /\ ScreenOf(transform, temporaryDot'[1]) = Canvas(PointerNow)]_vars

\* ------------------------------------------------------------------------
\* C17: every draw() paints a current enclosing circle: the circle it paints
\* is calculateEnclosingCircle of the committed dots and the temporary dot
\* that the same draw() paints (none exactly when there are no such dots).
\* ------------------------------------------------------------------------
DrawUsesCurrentCircle ==
  \A i \in 1..Len(drawn) :
    drawn[i].enclosingCircle
      = calculateEnclosingCircle(AllDots(drawn[i].dots, drawn[i].temporaryDot))

\* ------------------------------------------------------------------------
\* C18: only wheel events and two-touch moves change the transform.  Mouse
\* down, move and up, touch start, single-touch move, touch end, the timer
\* firing and a resize of the window leave it as it is.
\* ------------------------------------------------------------------------
ResizeStep == screenSize' # screenSize

TransformChangedOnlyByZoom ==
  [][/\ transform' # transform =>
          (WheelStep \/ (TouchMoveStep /\ Len(touches) = 2))
     /\ (\/ MouseDownStep \/ MouseMoveStep \/ MouseUpStep
         \/ TouchStartStep \/ TouchEndStep
         \/ (TouchMoveStep /\ Len(touches) = 1)
         \/ TimerStep \/ ResizeStep) => transform' = transform]_vars

\* the window was resized and a dot placed, and the transform is still the
\* one centred on the size at mount
ResizedWithInitialTransform ==
  /\ screenSize # InitialScreenSize
  /\ Len(dots) = 1
  /\ transform = [x |-> R(80), y |-> R(60), scale |-> R(1)]

\* ------------------------------------------------------------------------
\* C19: a single-pointer move while a temporary dot exists sets the dot's
\* coordinates to the board point under the live pointer position (under
\* the current transform) and the highlighted ring to getRingAtPoint of that
\* point, and leaves the dot's id and flags and the committed dots alone.
\* ------------------------------------------------------------------------
DragMoveFollowsPointer ==
  [][(temporaryDot # None /\ SinglePointerMove) =>
       LET b == BoardUnder(transform, Canvas(MovedTo))
       IN  /\ temporaryDot' =
                Some([temporaryDot[1] EXCEPT !.x = b.x, !.y = b.y])
           /\ highlightedRing' = getRingAtPoint(b.x, b.y)
           /\ dots' = dots]_vars

\* the temporary dot was dragged with the mouse into the innermost ring
DraggedIntoInnermostRing ==
  /\ buttonHeld # None /\ temporaryDot # None
  /\ ScreenOf(transform, temporaryDot[1]) = Canvas(pointer)
  /\ temporaryDot[1].isTemporary /\ temporaryDot[1].isDragging
  /\ highlightedRing = Some(9)

\* ------------------------------------------------------------------------
\* C20: the highlighted ring is a function of the model state: it is
\* getRingAtPoint of the temporary dot when there is one, and none when
\* there is none.
\* ------------------------------------------------------------------------
HighlightIsDerived ==
  highlightedRing =
    IF temporaryDot # None
    THEN getRingAtPoint(temporaryDot[1].x, temporaryDot[1].y)
    ELSE None

\* ------------------------------------------------------------------------
\* C21: whenever no mouse button is held and no touch is active, there is no
\* temporary dot, no long-press timer is pending, and the state of the
\* interaction (press origin, pinch flag, last pinch distance and midpoint)
\* is cleared; so a temporary dot exists only while a pointer or touch is
\* down.
\* ------------------------------------------------------------------------
IdleIsClean ==
  Idle =>
    /\ temporaryDot = None
    /\ pendingTimers = {}
    /\ mouseDownInfo = None
    /\ touchStartInfo = None
    /\ ~wasPinch
    /\ lastTouchDistance = None
    /\ lastTouchCenter = None

\* a long-press drag that also saw a pinch move has been released
IdleAfterDragWithPinch ==
  /\ Idle /\ lastOutcome = "drag" /\ Len(dots) = 1
  /\ nZoom = 1 /\ transform.scale = R(5)

====
